---- MODULE Spec2Model ----
(***************************************************************************)
(* Coriolanus: a terminal reader for play scripts and the preprocessing    *)
(* script that normalizes the raw texts.                                   *)
(*                                                                         *)
(*   data/folger_mod_script.py   modify_text, reduce_consecutive_newlines, *)
(*                               get_output_filename                       *)
(*   shakespeare_repl.py         ShakespeareReader._parse_play, get_scene, *)
(*                               parse_dialogues                           *)
(*                                                                         *)
(* A Python str is a sequence of one-character strings, so that indexing,  *)
(* slicing, splitting and joining are computed as the code computes them.  *)
(***************************************************************************)
EXTENDS Integers, Sequences, FiniteSets, TLC

VARIABLES
    fs,               \* the text files the normalizer reads and writes, by path
    result,           \* modify_text: the merged lines of the last run (before the join)
    last_run,         \* modify_text: <<input_file, output_file>> of the last run
    input_filename,   \* get_output_filename: its argument
    output_filename,  \* get_output_filename: its return value
    play_file,        \* ShakespeareReader: the text of the play file
    reader,           \* "none" before ShakespeareReader(filepath), "ready" after
    scenes,           \* ShakespeareReader.scenes: (act, scene) -> text
    query,            \* get_scene: the (act, scene) of the last call
    answer,           \* get_scene: what the last call returned
    scene_text,       \* parse_dialogues: its argument
    dialogues,        \* parse_dialogues: its return value
    segmented,        \* whether parse_dialogues has returned
    play_name,        \* ShakespeareReader.play_name
    in_dir,           \* process_all_files: the files of texts/folger-txt-org, by name
    out_dir,          \* process_all_files: the files of texts/folger-txt-mod, by name
    text_files,       \* process_all_files: sorted(input_dir.glob("*.txt"))
    file_idx,         \* process_all_files: how many files the loop has been through
    report,           \* process_all_files: the outcome printed for each file, in order
    batch,            \* process_all_files: where it is
    stepping,         \* display_scene_dialogue_mode: where it is
    dialogue_index,   \* display_scene_dialogue_mode.dialogue_index
    action            \* display_scene_dialogue_mode: the last action read, normalized

vars == <<fs, result, last_run, input_filename, output_filename, play_file,
          reader, scenes, query, answer, scene_text, dialogues, segmented,
          play_name, in_dir, out_dir, text_files, file_idx, report, batch,
          stepping, dialogue_index, action>>

normVars == <<fs, result, last_run>>
nameVars == <<input_filename, output_filename>>
playVars == <<play_file, reader, scenes, query, answer, play_name>>
dlgVars  == <<scene_text, dialogues, segmented>>
batchVars == <<in_dir, out_dir, text_files, file_idx, report, batch>>
stepVars == <<stepping, dialogue_index, action>>

----------------------------------------------------------------------------
(* Characters and strings *)

NL == "\n"
SP == " "

LowerLetters == <<"a","b","c","d","e","f","g","h","i","j","k","l","m",
                  "n","o","p","q","r","s","t","u","v","w","x","y","z">>
UpperLetters == <<"A","B","C","D","E","F","G","H","I","J","K","L","M",
                  "N","O","P","Q","R","S","T","U","V","W","X","Y","Z">>
DigitChars   == <<"0","1","2","3","4","5","6","7","8","9">>

Range(s) == {s[k] : k \in DOMAIN s}

\* str.islower() of one character
IsLower(c) == c \in Range(LowerLetters)
\* [A-Z]
IsUpper(c) == c \in Range(UpperLetters)
\* \d
IsDigit(c) == c \in Range(DigitChars)
\* the characters str.strip() removes and \s matches
IsSpace(c) == c \in {" ", "\n", "\t"}

\* str.upper() of one character
UpperChar(c) ==
    IF IsLower(c)
    THEN UpperLetters[CHOOSE k \in DOMAIN LowerLetters : LowerLetters[k] = c]
    ELSE c

\* str.upper()
Upper(s) == [k \in DOMAIN s |-> UpperChar(s[k])]

\* str.lower() of one character
LowerChar(c) ==
    IF IsUpper(c)
    THEN LowerLetters[CHOOSE k \in DOMAIN UpperLetters : UpperLetters[k] = c]
    ELSE c

\* str.lower()
Lower(s) == [k \in DOMAIN s |-> LowerChar(s[k])]

\* all strings over the characters S of length at most n
StringsUpTo(S, n) == UNION {[1..k -> S] : k \in 0..n}

\* s[i:] with a 0-based Python index i
From(s, i) == SubSeq(s, i + 1, Len(s))
\* s[:i] with a 0-based Python index i
Before(s, i) == SubSeq(s, 1, i)

\* s.endswith(p)
EndsWith(s, p) == Len(p) <= Len(s) /\ SubSeq(s, Len(s) - Len(p) + 1, Len(s)) = p

\* s.startswith(p)
StartsWith(s, p) == Len(p) <= Len(s) /\ SubSeq(s, 1, Len(p)) = p

\* s.rstrip('\n')
RECURSIVE RStripNL(_)
RStripNL(s) ==
    IF s # <<>> /\ s[Len(s)] = NL THEN RStripNL(SubSeq(s, 1, Len(s) - 1)) ELSE s

RECURSIVE RStrip(_)
RStrip(s) ==
    IF s # <<>> /\ IsSpace(s[Len(s)]) THEN RStrip(SubSeq(s, 1, Len(s) - 1)) ELSE s

RECURSIVE LStrip(_)
LStrip(s) ==
    IF s # <<>> /\ IsSpace(s[1]) THEN LStrip(Tail(s)) ELSE s

\* s.strip()
Strip(s) == LStrip(RStrip(s))

\* sep.join(parts)
RECURSIVE Join(_, _)
Join(parts, sep) ==
    IF parts = <<>> THEN <<>>
    ELSE IF Len(parts) = 1 THEN parts[1]
    ELSE parts[1] \o sep \o Join(Tail(parts), sep)

\* f.readlines(): the text cut after each newline, the newlines kept
RECURSIVE ReadLinesFrom(_, _)
ReadLinesFrom(text, i) ==
    IF i > Len(text) THEN <<>>
    ELSE LET newlines == {k \in i..Len(text) : text[k] = NL}
             end == IF newlines = {} THEN Len(text)
                    ELSE CHOOSE k \in newlines : \A j \in newlines : k <= j
         IN  <<SubSeq(text, i, end)>> \o ReadLinesFrom(text, end + 1)

ReadLines(text) == ReadLinesFrom(text, 1)

\* s.split('\n'): one more piece than there are newlines
RECURSIVE SplitFrom(_, _, _)
SplitFrom(text, i, cur) ==
    IF i > Len(text) THEN <<cur>>
    ELSE IF text[i] = NL
         THEN <<cur>> \o SplitFrom(text, i + 1, <<>>)
         ELSE SplitFrom(text, i + 1, Append(cur, text[i]))

SplitLines(text) == SplitFrom(text, 1, <<>>)

----------------------------------------------------------------------------
(* data/folger_mod_script.py: reduce_consecutive_newlines and modify_text *)

MaxDocLen == 5

DocChars == {"a", "B", "1", ".", " ", "\n"}

Docs == StringsUpTo(DocChars, MaxDocLen)

\* the length of the run of newlines that starts at text[i]
RECURSIVE NewlineRun(_, _)
NewlineRun(text, i) ==
    IF i <= Len(text) /\ text[i] = NL THEN 1 + NewlineRun(text, i + 1) ELSE 0

\* re.sub(r'\n{least,}', repl, text): leftmost, greedy, non-overlapping
RECURSIVE SubNewlineRuns(_, _, _, _)
SubNewlineRuns(text, i, least, repl) ==
    IF i > Len(text) THEN <<>>
    ELSE LET n == NewlineRun(text, i)
         IN  IF n >= least
             THEN repl \o SubNewlineRuns(text, i + n, least, repl)
             ELSE <<text[i]>> \o SubNewlineRuns(text, i + 1, least, repl)

reduce_newlines_from_four(text) == SubNewlineRuns(text, 1, 4, <<NL, NL>>)

reduce_consecutive_newlines(text) == SubNewlineRuns(text, 1, 3, <<NL, NL>>)

\* line 46: current_line and current_line[0].islower() and i > 0
\* (i is the 1-based index here: Python's i > 0 is i > 1)
is_continuation_late(current_line, i) ==
    current_line # <<>> /\ IsLower(current_line[1]) /\ i > 2

is_continuation(current_line, i) ==
    current_line # <<>> /\ IsLower(current_line[1]) /\ i > 1

\* line 53: lines[i].strip() and lines[i][0].islower()
collects_any_nonblank(line) == Strip(line) # <<>>

collects(line) == Strip(line) # <<>> /\ IsLower(line[1])

\* lines 53-55: the inner loop, from index i down
RECURSIVE CollectBack(_, _, _)
CollectBack(lines, i, lines_to_append) ==
    IF i >= 1 /\ collects(lines[i])
    THEN CollectBack(lines, i - 1, <<RStripNL(lines[i])>> \o lines_to_append)
    ELSE [i |-> i, lines_to_append |-> lines_to_append]

\* line 63 without the space between the base line and the group
merged_line_unspaced(base_line, lines_to_append) ==
    base_line \o Join(lines_to_append, <<SP>>)

\* line 61
merged_line(base_line, lines_to_append) ==
    base_line \o <<SP>> \o Join(lines_to_append, <<SP>>)

\* lines 42-70: the outer loop, from index i down
RECURSIVE MergeLoop(_, _, _)
MergeLoop(lines, i, res) ==
    IF i < 1 THEN res
    ELSE LET current_line == RStripNL(lines[i])
         IN  IF is_continuation(current_line, i)
             THEN LET c == CollectBack(lines, i - 1, <<current_line>>)
                  IN  IF c.i >= 1
                      THEN MergeLoop(lines, c.i - 1,
                               <<merged_line(RStripNL(lines[c.i]), c.lines_to_append)>>
                                   \o res)
                      ELSE MergeLoop(lines, c.i,
                               <<Join(c.lines_to_append, <<SP>>)>> \o res)
             ELSE MergeLoop(lines, i - 1, <<current_line>> \o res)

\* lines 39-70: result, for the lines read
MergeLines(lines) == MergeLoop(lines, Len(lines), <<>>)

\* lines 33-74: the text modify_text writes for the text it reads
modify_text(text) == reduce_consecutive_newlines(Join(MergeLines(ReadLines(text)), <<NL>>))

NoFile == [exists |-> FALSE, text |-> <<>>]
File(text) == [exists |-> TRUE, text |-> text]

Paths == {"org", "mod", "remod", "single"}

\* the runs of the script: on the raw text, and again on what it wrote
Runs == {<<"org", "mod">>, <<"mod", "remod">>}

InitIdleNorm == fs = [p \in Paths |-> NoFile] /\ result = <<>> /\ last_run = <<>>
InitIdleName == input_filename = <<>> /\ output_filename = <<>>
InitIdlePlay ==
    /\ play_file = <<>> /\ reader = "none" /\ scenes = <<>>
    /\ query = <<>> /\ answer = [called |-> FALSE, raised |-> FALSE, none |-> FALSE, text |-> <<>>]
    /\ play_name = <<>>
InitIdleDlg == scene_text = <<>> /\ dialogues = <<>> /\ segmented = FALSE
InitIdleBatch ==
    /\ in_dir = <<>> /\ out_dir = <<>> /\ text_files = <<>>
    /\ file_idx = 0 /\ report = <<>> /\ batch = "idle"
InitIdleStep == stepping = "off" /\ dialogue_index = 0 /\ action = <<>>

InitNorm ==
    /\ \E d \in Docs : fs = [p \in Paths |-> IF p = "org" THEN File(d) ELSE NoFile]
    /\ result = <<>> /\ last_run = <<>>
    /\ InitIdleName /\ InitIdlePlay /\ InitIdleDlg /\ InitIdleBatch /\ InitIdleStep

\* modify_text(input_file, output_file)
ModifyText(src, dst) ==
    /\ fs[src].exists
    /\ ~fs[dst].exists
    /\ fs' = [fs EXCEPT ![dst] = File(modify_text(fs[src].text))]
    /\ result' = MergeLines(ReadLines(fs[src].text))
    /\ last_run' = <<src, dst>>
    /\ UNCHANGED <<nameVars, playVars, dlgVars, batchVars, stepVars>>

\* data/test/text_mod.py, lines 17-57: the text its modify_text writes for the
\* text it reads; its loop is, line for line, the loop of the batch script
text_mod_modify_text(text) == Join(MergeLines(ReadLines(text)), <<NL>>)

\* data/test/text_mod.py: modify_text(input_file, output_file)
ModifyTextSingle(src, dst) ==
    /\ fs[src].exists
    /\ ~fs[dst].exists
    /\ fs' = [fs EXCEPT ![dst] = File(text_mod_modify_text(fs[src].text))]
    /\ UNCHANGED <<result, last_run, nameVars, playVars, dlgVars, batchVars, stepVars>>

NextNorm ==
    \/ \E r \in Runs : ModifyText(r[1], r[2])
    \/ ModifyTextSingle("org", "single")

SpecNorm == InitNorm /\ [][NextNorm]_vars

(* Claims about the normalizer *)

\* the text the last run read, and the text it wrote
LastInput  == fs[last_run[1]].text
LastOutput == fs[last_run[2]].text

\* C1: the normalizer is idempotent: run on the file it wrote, it writes the
\* same text again.
Idempotent == fs["remod"].exists => fs["remod"].text = fs["mod"].text

\* C2: no line of the normalizer's output begins with a lowercase letter,
\* except possibly the very first line.
NoLowercaseLineStart ==
    \A p \in {"mod", "remod"} :
        fs[p].exists =>
            LET out == SplitLines(fs[p].text)
            IN  \A k \in 2..Len(out) : out[k] = <<>> \/ ~IsLower(out[k][1])

\* C2 witness: the raw text had a lowercase line after its first line, and the
\* first line of the output is the permitted exception.
ContinuationNormalized ==
    /\ fs["mod"].exists
    /\ \E k \in 2..Len(ReadLines(fs["org"].text)) : IsLower(ReadLines(fs["org"].text)[k][1])
    /\ StartsWith(fs["mod"].text, <<"a">>)

IsPunct(c) == c \in {".", ",", ";", ":", "!", "?", "'", "-", "[", "]", "=", "_"}

\* the run-length encoding of a text
RECURSIVE RunsOf(_)
RunsOf(t) ==
    IF t = <<>> THEN <<>>
    ELSE LET r == RunsOf(Tail(t))
         IN  IF r # <<>> /\ r[1].ch = t[1]
             THEN <<[ch |-> t[1], n |-> r[1].n + 1]>> \o Tail(r)
             ELSE <<[ch |-> t[1], n |-> 1]>> \o r

\* the merged text of the last run, before the newline runs are reduced
MergedText == Join(result, <<NL>>)

\* a run of newlines between two lines: it holds n - 1 blank lines
Interior(R, k) == R[k].ch = NL /\ 1 < k /\ k < Len(R)

\* C6 as stated: a run of three or more blank lines becomes exactly one blank
\* line, and a run of two or fewer blank lines is left unchanged.
BlankRunsFromThreeCollapse ==
    last_run # <<>> =>
        LET R == RunsOf(MergedText)
            O == RunsOf(LastOutput)
        IN  /\ Len(O) = Len(R)
            /\ \A k \in DOMAIN R :
                   Interior(R, k) =>
                       O[k] = IF R[k].n - 1 >= 3 THEN [ch |-> NL, n |-> 2] ELSE R[k]

\* C6 amended: every run of three or more newline characters of the merged text
\* (two or more blank lines between two lines) becomes exactly two newlines (one
\* blank line); shorter runs of newlines and all other text are left unchanged.
NewlineRunsFromThreeCollapse ==
    last_run # <<>> =>
        LET R == RunsOf(MergedText)
        IN  RunsOf(LastOutput) =
                [k \in DOMAIN R |->
                    IF R[k].ch = NL /\ R[k].n >= 3 THEN [ch |-> NL, n |-> 2] ELSE R[k]]

\* C6 witness: the merged text held two blank lines between two lines, and the
\* output holds one.
TwoBlankLinesCollapsed ==
    /\ last_run # <<>>
    /\ \E k \in DOMAIN RunsOf(MergedText) :
           /\ Interior(RunsOf(MergedText), k)
           /\ RunsOf(MergedText)[k].n = 3
           /\ RunsOf(LastOutput)[k].n = 2

\* an input line that starts a line of its own: the first line, and every line
\* that does not begin with a lowercase letter
OwnLine(lines, k) == k = 1 \/ ~IsLower(lines[k][1])

\* how many lines up to line k start a line of their own
Rank(lines, k) == Cardinality({j \in 1..k : OwnLine(lines, j)})

\* C7: a line whose first character is an uppercase letter, a punctuation
\* character or a digit is never merged into a preceding line: it starts its
\* own line of the merged result, in order.
UpperPunctDigitNeverMerged ==
    last_run # <<>> =>
        LET lines == ReadLines(LastInput)
        IN  \A k \in DOMAIN lines :
               (IsUpper(lines[k][1]) \/ IsPunct(lines[k][1]) \/ IsDigit(lines[k][1])) =>
                   /\ Rank(lines, k) <= Len(result)
                   /\ StartsWith(result[Rank(lines, k)], RStripNL(lines[k]))

\* C7 witness: an uppercase line followed by a continuation line has been
\* merged with it, and a digit line stands on its own after them.
BaseLineKeptItsStart ==
    /\ last_run # <<>>
    /\ LET lines == ReadLines(LastInput)
       IN  /\ Len(lines) >= 3
           /\ IsUpper(lines[1][1])
           /\ IsLower(lines[2][1])
           /\ IsDigit(lines[3][1])
           /\ Len(result) = 2

\* the last line of the group that line k begins: the lines after k up to it
\* are all continuation lines
GroupEnd(lines, k) ==
    CHOOSE m \in k..Len(lines) :
        /\ \A j \in (k + 1)..m : ~OwnLine(lines, j)
        /\ m < Len(lines) => OwnLine(lines, m + 1)

\* C12: each maximal group of continuation lines is replaced, with the base
\* line before it, by the base line and the continuations joined by single
\* spaces in their order; every input line goes into exactly one merged line
\* and the order of the lines is kept.
GroupsJoinedToBase ==
    last_run # <<>> =>
        LET lines == ReadLines(LastInput)
            own == {k \in DOMAIN lines : OwnLine(lines, k)}
        IN  /\ Len(result) = Cardinality(own)
            /\ \A k \in own :
                   result[Rank(lines, k)] =
                       Join([j \in 1..(GroupEnd(lines, k) - k + 1) |->
                                RStripNL(lines[k + j - 1])], <<SP>>)

\* C12 witness: a base line and the two continuation lines after it have
\* become one line.
TwoContinuationsJoined ==
    /\ last_run # <<>>
    /\ LastInput = <<"B", "\n", "a", "\n", "a">>
    /\ result = <<<<"B", " ", "a", " ", "a">>>>

\* C15: the single-file script and the batch script write the same text for
\* the same input file, the reduction of blank-line runs included.
SameNormalizedText ==
    (fs["mod"].exists /\ fs["single"].exists) => fs["single"].text = fs["mod"].text

----------------------------------------------------------------------------
(* data/folger_mod_script.py: get_output_filename *)

MaxNameLen == 5

NameChars == {"m", "t", "x", "T", "X", "."}

HamletName ==
    <<"h","a","m","l","e","t","_","T","X","T","_","F","o","l","g","e","r",
      "S","h","a","k","e","s","p","e","a","r","e",".","t","x","t">>
MacbethName == <<"m","a","c","b","e","t","h",".","t","x","t">>

\* "", "." and ".." name no file
Names ==
    (StringsUpTo(NameChars, MaxNameLen) \ {<<>>, <<".">>, <<".", ".">>})
        \cup {HamletName, MacbethName}

\* s.find(sub): the 0-based index of the first occurrence, -1 when there is none
Find(s, sub) ==
    LET at == {i \in 0..(Len(s) - Len(sub)) : SubSeq(s, i + 1, i + Len(sub)) = sub}
    IN  IF at = {} THEN -1 ELSE CHOOSE i \in at : \A j \in at : i <= j

\* s.rfind('.')
RFindDot(s) ==
    LET at == {i \in 0..(Len(s) - 1) : s[i + 1] = "."}
    IN  IF at = {} THEN -1 ELSE CHOOSE i \in at : \A j \in at : i >= j

\* Path(filename).name, for a filename without directory separators
PathName(filename) == IF filename = <<".">> THEN <<>> ELSE filename

\* Path(filename).suffix
PathSuffix(filename) ==
    LET name == PathName(filename)
        i == RFindDot(name)
    IN  IF 0 < i /\ i < Len(name) - 1 THEN From(name, i) ELSE <<>>

\* Path(filename).stem
PathStem(filename) ==
    LET name == PathName(filename)
        i == RFindDot(name)
    IN  IF 0 < i /\ i < Len(name) - 1 THEN Before(name, i) ELSE name

FolgerMod == <<"f","o","l","g","e","r","_","m","o","d">>

get_output_filename(filename) ==
    LET txt_pos == Find(Upper(filename), <<"T", "X", "T">>)
    IN  IF txt_pos # -1
        THEN LET base_name == Before(filename, txt_pos)
                 ext == IF PathSuffix(filename) # <<>> THEN PathSuffix(filename)
                        ELSE <<".", "t", "x", "t">>
             IN  base_name \o FolgerMod \o ext
        ELSE PathStem(filename) \o <<"_">> \o FolgerMod \o PathSuffix(filename)

InitName ==
    /\ input_filename \in Names
    /\ output_filename = <<>>
    /\ InitIdleNorm /\ InitIdlePlay /\ InitIdleDlg /\ InitIdleBatch /\ InitIdleStep

GetOutputFilename ==
    /\ output_filename = <<>>
    /\ output_filename' = get_output_filename(input_filename)
    /\ UNCHANGED <<input_filename, normVars, playVars, dlgVars, batchVars, stepVars>>

NextName == GetOutputFilename

SpecName == InitName /\ [][NextName]_vars

----------------------------------------------------------------------------
(* data/folger_mod_script.py: process_all_files *)

MaxBatchFiles == 3

\* the names an entry of texts/folger-txt-org can have
BatchNames ==
    { <<"a",".","t","x","t">>, <<"b",".","t","x","t">>, <<"B",".","t","x","t">>,
      <<".","t","x","t">>, <<"a",".","T","X","T">>, <<"a",".","m","d">>,
      <<"a","t","x","t">> }

\* the texts of the entries that can be read
BatchTexts == { <<"B", "\n", "a">>, <<"B", "\n", "\n", "\n", "B">> }

\* an entry of the directory: a file modify_text can read, one that open()
\* refuses (line 34), or one whose bytes readlines() cannot decode (line 35)
BatchEntries ==
    {[kind |-> "ok", text |-> t] : t \in BatchTexts}
        \cup {[kind |-> "unreadable", text |-> <<>>], [kind |-> "undecodable", text |-> <<>>]}

\* the directories of the model: absent, or holding up to MaxBatchFiles entries
BatchDirs ==
    {[exists |-> FALSE, files |-> <<>>]}
        \cup UNION {{[exists |-> TRUE, files |-> f] : f \in [S -> BatchEntries]} :
                      S \in {T \in SUBSET BatchNames : Cardinality(T) <= MaxBatchFiles}}

\* the characters of the names, in the order of their code points
CharOrder == <<".", "B", "T", "X", "a", "b", "d", "m", "t", "x">>
CodePoint(c) == CHOOSE k \in DOMAIN CharOrder : CharOrder[k] = c

\* a < b for two str (and for two paths of one directory)
StrLess(a, b) ==
    \E k \in 1..(Len(b)) :
        /\ k <= Len(a) + 1
        /\ SubSeq(a, 1, k - 1) = SubSeq(b, 1, k - 1)
        /\ (k = Len(a) + 1 \/ CodePoint(a[k]) < CodePoint(b[k]))

\* line 128: sorted(...)
RECURSIVE sorted(_)
sorted(S) ==
    IF S = {} THEN <<>>
    ELSE LET least == CHOOSE n \in S : \A o \in S \ {n} : StrLess(n, o)
         IN  <<least>> \o sorted(S \ {least})

\* line 128: input_dir.glob("*.txt")
glob_txt(dir) == {n \in DOMAIN dir.files : EndsWith(n, <<".", "t", "x", "t">>)}

\* open(output_file, 'w') and f.write(output_text), lines 76-78
WriteFile(dir, name, text) ==
    [n \in DOMAIN dir \cup {name} |-> IF n = name THEN text ELSE dir[n]]

\* lines 147-152 without the try: an exception leaves process_all_files
run_file_uncaught(entry) ==
    IF entry.kind = "ok"
    THEN [status |-> "Success", written |-> TRUE, goes_on |-> TRUE]
    ELSE [status |-> "Traceback", written |-> FALSE, goes_on |-> FALSE]

\* lines 147-152: modify_text in its try; what is printed for the file, whether
\* the output file was written and whether the loop goes on
run_file(entry) ==
    IF entry.kind = "ok"
    THEN [status |-> "Success", written |-> TRUE, goes_on |-> TRUE]
    ELSE [status |-> "Error", written |-> FALSE, goes_on |-> TRUE]

InitBatch ==
    /\ in_dir \in BatchDirs
    /\ out_dir = <<>> /\ text_files = <<>>
    /\ file_idx = 0 /\ report = <<>> /\ batch = "idle"
    /\ InitIdleNorm /\ InitIdleName /\ InitIdlePlay /\ InitIdleDlg /\ InitIdleStep

\* lines 113-135: process_all_files up to its loop
ProcessAllFiles ==
    /\ batch = "idle"
    /\ IF ~in_dir.exists
       THEN batch' = "exit" /\ UNCHANGED <<text_files, file_idx>>
       ELSE /\ text_files' = sorted(glob_txt(in_dir))
            /\ IF glob_txt(in_dir) = {}
               THEN batch' = "done" /\ UNCHANGED file_idx
               ELSE batch' = "loop" /\ file_idx' = 1
    /\ UNCHANGED <<in_dir, out_dir, report, normVars, nameVars, playVars, dlgVars, stepVars>>

\* lines 138-152: one turn of the loop, and lines 154-155 after the last
ProcessFile ==
    /\ batch = "loop"
    /\ LET input_file == text_files[file_idx]
           out_name == get_output_filename(input_file)
           entry == in_dir.files[input_file]
           r == run_file(entry)
       IN  /\ report' = Append(report, [name |-> input_file, output |-> out_name,
                                        status |-> r.status])
           /\ out_dir' = IF r.written
                         THEN WriteFile(out_dir, out_name, modify_text(entry.text))
                         ELSE out_dir
           /\ IF ~r.goes_on
              THEN batch' = "aborted" /\ UNCHANGED file_idx
              ELSE IF file_idx < Len(text_files)
                   THEN batch' = "loop" /\ file_idx' = file_idx + 1
                   ELSE batch' = "done" /\ UNCHANGED file_idx
    /\ UNCHANGED <<in_dir, text_files, normVars, nameVars, playVars, dlgVars, stepVars>>

NextBatch == ProcessAllFiles \/ ProcessFile

SpecBatch == InitBatch /\ [][NextBatch]_vars

\* the .txt entries of the input directory
TxtEntries == {n \in DOMAIN in_dir.files :
                  Len(n) >= 4 /\ SubSeq(n, Len(n) - 3, Len(n)) = <<".", "t", "x", "t">>}

\* C11: once process_all_files has left its loop on an existing directory, it
\* has reported every .txt entry exactly once, in sorted order, each with its
\* own outcome: Success for a file it could normalize, whose output is then
\* written, and Error for one it could not, whatever came before it.
EveryFileAttempted ==
    (in_dir.exists /\ batch \notin {"idle", "loop"}) =>
        /\ batch = "done"
        /\ {report[k].name : k \in DOMAIN report} = TxtEntries
        /\ \A k \in DOMAIN report : \A l \in DOMAIN report :
               k < l => StrLess(report[k].name, report[l].name)
        /\ \A k \in DOMAIN report :
               LET entry == in_dir.files[report[k].name]
               IN  IF entry.kind = "ok"
                   THEN /\ report[k].status = "Success"
                        /\ report[k].output \in DOMAIN out_dir
                   ELSE report[k].status = "Error"

\* C11 witness: the first file of the directory could not be read, and the
\* file after it was normalized and reported all the same.
FileAfterFailureProcessed ==
    /\ batch = "done"
    /\ Len(report) = 2
    /\ report[1].name = <<"B",".","t","x","t">> /\ report[1].status = "Error"
    /\ report[2].name = <<"a",".","t","x","t">> /\ report[2].status = "Success"
    /\ out_dir = (<<"a",".">> \o FolgerMod \o <<".","t","x","t">>) :> <<"B", " ", "a">>

(* Claims about the filename rule *)

\* the 1-based positions where "TXT" occurs in s, whatever the case
TxtAt(s) ==
    {i \in 1..(Len(s) - 2) :
        /\ s[i] \in {"t", "T"} /\ s[i + 1] \in {"x", "X"} /\ s[i + 2] \in {"t", "T"}}

\* the extension of a file name: from its last dot, when that dot is neither
\* the first nor the last character
ExtensionOf(s) ==
    LET dots == {i \in 2..(Len(s) - 1) : s[i] = "."}
    IN  IF dots = {} \/ s[Len(s)] = "." THEN <<>>
        ELSE SubSeq(s, CHOOSE i \in dots : \A j \in dots : i >= j, Len(s))

\* the general rule of C3, without its two examples
FilenameRule ==
    output_filename # <<>> =>
        LET s == input_filename
            ext == ExtensionOf(s)
        IN  IF TxtAt(s) # {}
            THEN LET first == CHOOSE i \in TxtAt(s) : \A j \in TxtAt(s) : i <= j
                 IN  output_filename =
                         SubSeq(s, 1, first - 1) \o FolgerMod
                             \o (IF ext = <<>> THEN <<".", "t", "x", "t">> ELSE ext)
            ELSE output_filename =
                     SubSeq(s, 1, Len(s) - Len(ext)) \o <<"_">> \o FolgerMod \o ext

\* C3: a name that contains "TXT" (whatever the case) maps to the text before
\* the first occurrence, "folger_mod" and the extension (".txt" if none), any
\* other name to stem, "_folger_mod" and extension; "hamlet_TXT_FolgerShakespeare.txt"
\* maps to "hamlet_folger_mod.txt" and "macbeth.txt" to "macbeth_folger_mod.txt".
FilenameRuleAndExamples ==
    /\ FilenameRule
    /\ (output_filename # <<>> /\ input_filename = HamletName) =>
           output_filename = <<"h","a","m","l","e","t","_">> \o FolgerMod \o <<".","t","x","t">>
    /\ (output_filename # <<>> /\ input_filename = MacbethName) =>
           output_filename =
               <<"m","a","c","b","e","t","h","_">> \o FolgerMod \o <<".","t","x","t">>

----------------------------------------------------------------------------
(* shakespeare_repl.py: ShakespeareReader._parse_play and get_scene *)

MaxPlayLines == 4

ActOne      == <<"A","C","T"," ","1","\n">>
ActTwo      == <<" ","A","C","T"," ","2","\n">>
ActBad      == <<"A","C","T"," ","x","\n">>
SceneOne    == <<"S","c","e","n","e"," ","1","\n">>
SceneTwo    == <<"S","c","e","n","e"," ","2","\n">>
Separator   == <<"=","=","\n">>
HamletLine  == <<"H","A","M","L","E","T","\n">>
ToBeLine    == <<"T","o"," ","b","e",".","\n">>
HoratioLine == <<"H","O","R","A","T","I","O","\n">>
IndeedLine  == <<"I","n","d","e","e","d",".">>

\* the lines the play files of the model are made of
PlayLines == {ActOne, ActTwo, ActBad, SceneOne, SceneTwo, Separator, HamletLine}

\* ACT 1 / Scene 1 / HAMLET / To be. / Scene 2 / HORATIO / Indeed.
ExamplePlay ==
    <<SubSeq(ActOne, 1, 5) \o <<NL>>, SceneOne, HamletLine, ToBeLine, SceneTwo,
      HoratioLine, IndeedLine>>

PlayFiles ==
    {Join(ls, <<>>) : ls \in StringsUpTo(PlayLines, MaxPlayLines)}
        \cup {Join(ExamplePlay, <<>>)}

\* current_act = None, current_scene = None: no number \d+ gives is negative
NoNumber == -1

\* int(digits)
RECURSIVE IntOf(_)
IntOf(digits) ==
    IF digits = <<>> THEN 0
    ELSE 10 * IntOf(SubSeq(digits, 1, Len(digits) - 1))
           + (CHOOSE d \in 0..9 : DigitChars[d + 1] = digits[Len(digits)])

\* re.match('^' + keyword + r'(\d+)$', stripped): the number, or NoNumber
HeaderNumber(keyword, stripped) ==
    LET digits == From(stripped, Len(keyword))
    IN  IF /\ StartsWith(stripped, keyword)
           /\ digits # <<>>
           /\ \A k \in DOMAIN digits : IsDigit(digits[k])
        THEN IntOf(digits)
        ELSE NoNumber

\* line 50: re.match(r'^ACT (\d+)$', line.strip())
act_match(line) == HeaderNumber(<<"A","C","T"," ">>, Strip(line))

\* line 62: re.match(r'^Scene (\d+)$', line.strip())
scene_match(line) == HeaderNumber(<<"S","c","e","n","e"," ">>, Strip(line))

\* line 75: re.match(r'^=+$', line.strip())
separator_match(line) ==
    Strip(line) # <<>> /\ \A k \in DOMAIN Strip(line) : Strip(line)[k] = "="

\* d[key] = value
DictPut(d, key, value) ==
    [k \in DOMAIN d \cup {key} |-> IF k = key THEN value ELSE d[k]]

\* lines 53-54, 65-66, 79-80, keeping the entry a pair already has
keep_first_scene(st) ==
    IF st.current_act # NoNumber /\ st.current_scene # NoNumber
           /\ <<st.current_act, st.current_scene>> \notin DOMAIN st.scenes
    THEN DictPut(st.scenes, <<st.current_act, st.current_scene>>,
                 Join(st.scene_content, <<>>))
    ELSE st.scenes

\* lines 53-54, 65-66, 79-80: save the open scene
save_scene(st) ==
    IF st.current_act # NoNumber /\ st.current_scene # NoNumber
    THEN DictPut(st.scenes, <<st.current_act, st.current_scene>>,
                 Join(st.scene_content, <<>>))
    ELSE st.scenes

\* lines 48-76: the body of the loop, for one line
parse_line(st, line) ==
    IF act_match(line) # NoNumber
    THEN [current_act |-> act_match(line), current_scene |-> NoNumber,
          scene_content |-> <<>>, scenes |-> save_scene(st)]
    ELSE IF scene_match(line) # NoNumber
    THEN [current_act |-> st.current_act, current_scene |-> scene_match(line),
          scene_content |-> <<>>, scenes |-> save_scene(st)]
    ELSE IF st.current_act # NoNumber /\ st.current_scene # NoNumber
              /\ ~separator_match(line)
    THEN [st EXCEPT !.scene_content = Append(@, line)]
    ELSE st

RECURSIVE ParseLoop(_, _, _)
ParseLoop(lines, k, st) ==
    IF k > Len(lines) THEN st ELSE ParseLoop(lines, k + 1, parse_line(st, lines[k]))

\* lines 39-80: self.scenes after _parse_play, for the text of the file
parse_play(text) ==
    save_scene(ParseLoop(ReadLines(text), 1,
        [current_act |-> NoNumber, current_scene |-> NoNumber,
         scene_content |-> <<>>, scenes |-> <<>>]))

NotCalled  == [called |-> FALSE, raised |-> FALSE, none |-> FALSE, text |-> <<>>]
ReturnNone == [called |-> TRUE, raised |-> FALSE, none |-> TRUE, text |-> <<>>]
Return(t)  == [called |-> TRUE, raised |-> FALSE, none |-> FALSE, text |-> t]
KeyError   == [called |-> TRUE, raised |-> TRUE, none |-> FALSE, text |-> <<>>]

\* self.scenes[(act, scene)]
get_scene_by_index(d, act, scene) ==
    [ret |-> IF <<act, scene>> \in DOMAIN d THEN Return(d[<<act, scene>>]) ELSE KeyError,
     scenes |-> d]

\* lines 82-84: self.scenes.get((act, scene)): what it returns, and self.scenes after
get_scene(d, act, scene) ==
    [ret |-> IF <<act, scene>> \in DOMAIN d THEN Return(d[<<act, scene>>]) ELSE ReturnNone,
     scenes |-> d]

\* the (act, scene) pairs asked for
Queries == {<<1, 1>>, <<1, 2>>, <<2, 1>>, <<9, 9>>, <<-1, 0>>}

InitPlay ==
    /\ play_file \in PlayFiles
    /\ reader = "none" /\ scenes = <<>> /\ query = <<>> /\ answer = NotCalled
    /\ play_name = <<>>
    /\ InitIdleNorm /\ InitIdleName /\ InitIdleDlg /\ InitIdleBatch /\ InitIdleStep

\* f.readline(): the first line of the text, its newline kept; '' at end of file
ReadLine(text) == IF ReadLines(text) = <<>> THEN <<>> ELSE ReadLines(text)[1]

ByShakespeare == <<" ","b","y"," ","W","i","l","l","i","a","m"," ","S","h","a","k","e","s","p","e","a","r","e">>
UnknownPlay   == <<"U","n","k","n","o","w","n"," ","P","l","a","y">>

\* lines 28-37, with the suffix left on the title
get_play_name_with_suffix(text) ==
    IF Strip(ReadLine(text)) # <<>> THEN Strip(ReadLine(text)) ELSE UnknownPlay

\* lines 28-37: _get_play_name, for the text of a file that can be read
get_play_name(text) ==
    LET stripped == Strip(ReadLine(text))
        first_line == IF EndsWith(stripped, ByShakespeare)
                      THEN SubSeq(stripped, 1, Len(stripped) - Len(ByShakespeare))
                      ELSE stripped
    IN  IF first_line # <<>> THEN first_line ELSE UnknownPlay

\* ShakespeareReader(filepath): lines 21-26
NewReader ==
    /\ reader = "none"
    /\ reader' = "ready"
    /\ play_name' = get_play_name(play_file)
    /\ scenes' = parse_play(play_file)
    /\ UNCHANGED <<play_file, query, answer, normVars, nameVars, dlgVars,
                   batchVars, stepVars>>

\* reader.get_scene(act, scene)
GetScene(act, scene) ==
    /\ reader = "ready"
    /\ query' = <<act, scene>>
    /\ answer' = get_scene(scenes, act, scene).ret
    /\ scenes' = get_scene(scenes, act, scene).scenes
    /\ UNCHANGED <<play_file, reader, play_name, normVars, nameVars, dlgVars,
                   batchVars, stepVars>>

NextPlay == NewReader \/ \E q \in Queries : GetScene(q[1], q[2])

SpecPlay == InitPlay /\ [][NextPlay]_vars

\* the source files of the title: their first lines are blank, a title, a title
\* with the attribution, or the attribution alone
MaxTitleLines == 3

TitleHamlet == <<"H","a","m","l","e","t">>

TitleLines ==
    { <<NL>>, <<SP, NL>>, TitleHamlet, TitleHamlet \o <<NL>>,
      TitleHamlet \o ByShakespeare \o <<NL>>,
      <<SP>> \o TitleHamlet \o <<SP>> \o ByShakespeare \o <<SP, NL>>,
      ByShakespeare \o <<NL>>, ActOne }

TitleFiles == {Join(ls, <<>>) : ls \in StringsUpTo(TitleLines, MaxTitleLines)}

InitTitle ==
    /\ play_file \in TitleFiles
    /\ reader = "none" /\ scenes = <<>> /\ query = <<>> /\ answer = NotCalled
    /\ play_name = <<>>
    /\ InitIdleNorm /\ InitIdleName /\ InitIdleDlg /\ InitIdleBatch /\ InitIdleStep

NextTitle == NewReader

SpecTitle == InitTitle /\ [][NextTitle]_vars

(* Claims about the parser *)

\* the line, trimmed, is the keyword followed by digits and nothing else
IsHeaderLine(keyword, line) ==
    LET t == Strip(line)
    IN  /\ Len(t) > Len(keyword)
        /\ SubSeq(t, 1, Len(keyword)) = keyword
        /\ \A k \in (Len(keyword) + 1)..Len(t) : IsDigit(t[k])

IsActHeader(line)   == IsHeaderLine(<<"A","C","T"," ">>, line)
IsSceneHeader(line) == IsHeaderLine(<<"S","c","e","n","e"," ">>, line)

\* the number a header line declares
DeclaredNumber(line) ==
    LET t == Strip(line)
        sp == CHOOSE k \in DOMAIN t : t[k] = " "
    IN  IntOf(SubSeq(t, sp + 1, Len(t)))

\* the Scene headers among the lines L that follow an ACT header
DeclaredScenes(L) ==
    {i \in DOMAIN L : IsSceneHeader(L[i]) /\ \E j \in 1..(i - 1) : IsActHeader(L[j])}

\* the (act, scene) pair the Scene header at line i declares
PairOf(L, i) ==
    LET j == CHOOSE j \in 1..(i - 1) :
                 IsActHeader(L[j]) /\ \A m \in (j + 1)..(i - 1) : ~IsActHeader(L[m])
    IN  <<DeclaredNumber(L[j]), DeclaredNumber(L[i])>>

\* the first line after line i that is a header, or one past the end
NextHeader(L, i) ==
    CHOOSE n \in (i + 1)..(Len(L) + 1) :
        /\ n <= Len(L) => (IsActHeader(L[n]) \/ IsSceneHeader(L[n]))
        /\ \A m \in (i + 1)..(n - 1) : ~(IsActHeader(L[m]) \/ IsSceneHeader(L[m]))

\* a line that, trimmed, consists only of = characters
IsSeparatorLine(line) == Strip(line) # <<>> /\ Range(Strip(line)) = {"="}

\* the lines i to n - 1 of L, the separator lines left out, as one text
RECURSIVE ContentBetween(_, _, _)
ContentBetween(L, i, n) ==
    IF i >= n THEN <<>>
    ELSE (IF IsSeparatorLine(L[i]) THEN <<>> ELSE L[i]) \o ContentBetween(L, i + 1, n)

\* the text of the scene declared at line i
SceneTextOf(L, i) == ContentBetween(L, i + 1, NextHeader(L, i))

ExampleMapping ==
    play_file = Join(ExamplePlay, <<>>) =>
        scenes = (<<1, 1>> :> (HamletLine \o ToBeLine) @@ <<1, 2>> :> (HoratioLine \o IndeedLine))

\* C4 as stated: the mapping has an entry for each declared (act, scene) pair,
\* and the entry is the text between that Scene header and the next header,
\* separator lines removed; no other line is in any entry.
EveryDeclaredSceneKept ==
    reader = "ready" =>
        LET L == ReadLines(play_file)
            D == DeclaredScenes(L)
        IN  /\ DOMAIN scenes = {PairOf(L, i) : i \in D}
            /\ \A i \in D : scenes[PairOf(L, i)] = SceneTextOf(L, i)
            /\ ExampleMapping

\* C4 amended: the same, for the last Scene header that declares each pair.
LastDeclaredSceneKept ==
    reader = "ready" =>
        LET L == ReadLines(play_file)
            D == DeclaredScenes(L)
        IN  /\ DOMAIN scenes = {PairOf(L, i) : i \in D}
            /\ \A i \in D :
                   (\A j \in D : j > i => PairOf(L, j) # PairOf(L, i)) =>
                       scenes[PairOf(L, i)] = SceneTextOf(L, i)
            /\ ExampleMapping

\* C4 witness: a scene has been parsed whose lines hold a separator, which
\* its entry leaves out.
SceneParsedWithoutSeparator ==
    /\ reader = "ready"
    /\ play_file = ActOne \o SceneOne \o Separator \o HamletLine
    /\ DOMAIN scenes = {<<1, 1>>}
    /\ scenes[<<1, 1>>] = HamletLine

\* C10: get_scene for a pair that is not a key of the mapping returns None,
\* raises nothing and leaves the mapping unchanged.
AbsentSceneIsNone ==
    [][reader = "ready" =>
          /\ scenes' = scenes
          /\ (query' \notin DOMAIN scenes => answer' = ReturnNone)]_vars

\* C10 witness: a pair was asked for that the parsed play does not hold, and
\* the answer is None.
AbsentSceneAsked ==
    /\ answer = ReturnNone
    /\ query = <<9, 9>>
    /\ DOMAIN scenes = {<<1, 1>>, <<1, 2>>}


\* the Scene headers of L whose pair a later Scene header declares again
RepeatedScenes(L) ==
    {i \in DeclaredScenes(L) :
        \E j \in DeclaredScenes(L) : j > i /\ PairOf(L, j) = PairOf(L, i)}

\* the last Scene header of L that declares the pair of the header at line i
LastOccurrence(L, i) ==
    CHOOSE j \in DeclaredScenes(L) :
        /\ PairOf(L, j) = PairOf(L, i)
        /\ \A k \in DeclaredScenes(L) : PairOf(L, k) = PairOf(L, i) => k <= j

\* C14: a pair declared more than once has one entry, the text of its last
\* occurrence; every entry of the mapping is the text of a header that no later
\* header repeats, so the text of an earlier occurrence is in no entry.
RepeatedSceneKeepsLastOnly ==
    reader = "ready" =>
        LET L == ReadLines(play_file)
            Rep == RepeatedScenes(L)
        IN  /\ \A i \in Rep :
                   /\ PairOf(L, i) \in DOMAIN scenes
                   /\ scenes[PairOf(L, i)] = SceneTextOf(L, LastOccurrence(L, i))
            /\ \A p \in DOMAIN scenes :
                   \E i \in DeclaredScenes(L) \ Rep :
                       p = PairOf(L, i) /\ scenes[p] = SceneTextOf(L, i)

\* C14 witness: Scene 1 of act 1 is declared twice, with a line after the first
\* header and none after the second, and the entry of (1, 1) is empty.
EarlierOccurrenceOverwritten ==
    /\ reader = "ready"
    /\ play_file = ActOne \o SceneOne \o HamletLine \o SceneOne
    /\ DOMAIN scenes = {<<1, 1>>}
    /\ scenes[<<1, 1>>] = <<>>

\* the text of a line with the attribution at its end removed
WithoutAttribution(line) ==
    IF \E k \in 0..Len(line) : SubSeq(line, 1, k) \o ByShakespeare = line
    THEN SubSeq(line, 1, Len(line) - Len(ByShakespeare))
    ELSE line

\* the lines of the file that are not blank
NonBlankLines(L) == {k \in DOMAIN L : Strip(L[k]) # <<>>}

\* C13 as stated: the title is the first non-blank line of the file, trimmed
\* and without the attribution, whenever the file has a non-blank line.
TitleIsFirstNonEmptyLine ==
    LET L == ReadLines(play_file)
    IN  (reader = "ready" /\ NonBlankLines(L) # {}) =>
            LET k == CHOOSE n \in NonBlankLines(L) : \A o \in NonBlankLines(L) : n <= o
            IN  play_name = WithoutAttribution(Strip(L[k]))

\* C13 amended: the title is the first line of the file, trimmed and without
\* the attribution, whenever that line is not blank; it is "Unknown Play" when
\* the first line is blank or the file is empty.
TitleIsFirstLine ==
    LET L == ReadLines(play_file)
    IN  reader = "ready" =>
            IF 1 \in NonBlankLines(L)
            THEN play_name = WithoutAttribution(Strip(L[1]))
            ELSE play_name = UnknownPlay

\* C13 witness: a file whose first line is a padded title with the attribution
\* has been loaded, and its title is the bare title.
AttributionRemoved ==
    /\ reader = "ready"
    /\ play_file = <<SP>> \o TitleHamlet \o <<SP>> \o ByShakespeare \o <<SP, NL>> \o ActOne
    /\ play_name = TitleHamlet \o <<SP>>
----------------------------------------------------------------------------
(* shakespeare_repl.py: ShakespeareReader.parse_dialogues *)

MaxSceneLen == 6

SceneChars == {"A", "a", " ", "\n"}

\* "HAMLET\nTo be or not to be.\nHORATIO\nWell said."
ExampleScene ==
    <<"H","A","M","L","E","T","\n",
      "T","o"," ","b","e"," ","o","r"," ","n","o","t"," ","t","o"," ","b","e",".","\n",
      "H","O","R","A","T","I","O","\n",
      "W","e","l","l"," ","s","a","i","d",".">>

SceneTexts == StringsUpTo(SceneChars, MaxSceneLen) \cup {ExampleScene}

\* how many uppercase letters s begins with: what a greedy [A-Z]* takes
RECURSIVE UpperPrefix(_)
UpperPrefix(s) == IF s # <<>> /\ IsUpper(s[1]) THEN 1 + UpperPrefix(Tail(s)) ELSE 0

\* (\s+[A-Z]+)*\s*$ matches all of s
RECURSIVE MoreNames(_)
MoreNames(s) ==
    \/ s = <<>>
    \/ /\ IsSpace(s[1])
       /\ LET t == LStrip(s)
          IN  t = <<>> \/ (UpperPrefix(t) >= 1 /\ MoreNames(From(t, UpperPrefix(t))))

\* line 166: re.match(r'^[A-Z]{2,}(\s+[A-Z]+)*\s*$', stripped)
names_only_match(stripped) ==
    UpperPrefix(stripped) >= 2 /\ MoreNames(From(stripped, UpperPrefix(stripped)))

\* line 167: re.match(r'^[A-Z]{2,}(\s+[A-Z]+)*\s+', stripped)
name_then_text_match(stripped) ==
    /\ UpperPrefix(stripped) >= 2
    /\ Len(stripped) > UpperPrefix(stripped)
    /\ IsSpace(stripped[UpperPrefix(stripped) + 1])

\* lines 166-167, with the second pattern left out
is_header_names_only(line) == names_only_match(Strip(line))

\* lines 166-167
is_header(line) == names_only_match(Strip(line)) \/ name_then_text_match(Strip(line))

\* line 177, without "or line.strip()"
continues_open_dialogue(current_dialogue, line) == current_dialogue # <<>>

\* line 177: current_dialogue or line.strip()
continues_dialogue(current_dialogue, line) ==
    current_dialogue # <<>> \/ Strip(line) # <<>>

\* lines 163-178: the body of the loop, for one line
dialogue_line(st, line) ==
    IF is_header(line)
    THEN [dialogues |-> IF st.current_dialogue # <<>>
                        THEN Append(st.dialogues, Join(st.current_dialogue, <<NL>>))
                        ELSE st.dialogues,
          current_dialogue |-> <<line>>]
    ELSE IF continues_dialogue(st.current_dialogue, line)
    THEN [st EXCEPT !.current_dialogue = Append(@, line)]
    ELSE st

RECURSIVE DialogueLoop(_, _, _)
DialogueLoop(lines, k, st) ==
    IF k > Len(lines) THEN st ELSE DialogueLoop(lines, k + 1, dialogue_line(st, lines[k]))

\* lines 180-184, with the last dialogue forgotten
return_saved_dialogues(st) == st.dialogues

\* lines 180-184: save the last dialogue and return
return_dialogues(st) ==
    IF st.current_dialogue # <<>>
    THEN Append(st.dialogues, Join(st.current_dialogue, <<NL>>))
    ELSE st.dialogues

\* lines 157-184
parse_dialogues(text) ==
    return_dialogues(DialogueLoop(SplitLines(Strip(text)), 1,
                                  [dialogues |-> <<>>, current_dialogue |-> <<>>]))

InitDlg ==
    /\ scene_text \in SceneTexts
    /\ dialogues = <<>> /\ segmented = FALSE
    /\ InitIdleNorm /\ InitIdleName /\ InitIdlePlay /\ InitIdleBatch /\ InitIdleStep

\* reader.parse_dialogues(scene_text)
ParseDialogues ==
    /\ ~segmented
    /\ segmented' = TRUE
    /\ dialogues' = parse_dialogues(scene_text)
    /\ UNCHANGED <<scene_text, normVars, nameVars, playVars, batchVars, stepVars>>

NextDlg == ParseDialogues

SpecDlg == InitDlg /\ [][NextDlg]_vars

(* Claims about the dialogue segmenter *)

\* the lines of the trimmed scene
TrimmedLines == SplitLines(Strip(scene_text))

\* a character-name header line: trimmed, it begins with two or more uppercase
\* letters that are followed by white space or by the end of the line
IsNameLine(line) ==
    LET t == Strip(line)
    IN  \E n \in 2..Len(t) :
            /\ \A k \in 1..n : IsUpper(t[k])
            /\ n = Len(t) \/ IsSpace(t[n + 1])

IsBlankLine(line) == \A k \in DOMAIN line : IsSpace(line[k])

HeaderLess == \A k \in DOMAIN TrimmedLines : ~IsNameLine(TrimmedLines[k])

\* the lines of unit u
UnitLines(u) == SplitLines(dialogues[u])

HeaderOpensUnit ==
    segmented =>
        /\ \A u \in DOMAIN dialogues :
               \A k \in 2..Len(UnitLines(u)) : ~IsNameLine(UnitLines(u)[k])
        /\ Cardinality({u \in DOMAIN dialogues : IsNameLine(UnitLines(u)[1])})
               = Cardinality({k \in DOMAIN TrimmedLines : IsNameLine(TrimmedLines[k])})
        /\ scene_text = ExampleScene =>
               dialogues = <<SubSeq(ExampleScene, 1, 26), SubSeq(ExampleScene, 28, 45)>>

\* C8 witness: a header line that carries text after the name has closed the
\* unit before it and opened its own.
HeaderClosedUnit ==
    /\ segmented
    /\ scene_text = <<"a","\n","A","A"," ","a">>
    /\ dialogues = <<<<"a">>, <<"A","A"," ","a">>>>

RECURSIVE DropLeadingBlank(_)
DropLeadingBlank(lines) ==
    IF lines # <<>> /\ IsBlankLine(lines[1]) THEN DropLeadingBlank(Tail(lines)) ELSE lines

RECURSIVE LinesOfUnits(_)
LinesOfUnits(u) ==
    IF u > Len(dialogues) THEN <<>> ELSE UnitLines(u) \o LinesOfUnits(u + 1)

\* C9: every unit is non-empty, and the lines of the units, in order, are the
\* lines of the trimmed scene without the blank lines before the first
\* collected line.
UnitsPartitionScene ==
    segmented =>
        /\ \A u \in DOMAIN dialogues : dialogues[u] # <<>>
        /\ LinesOfUnits(1) = DropLeadingBlank(TrimmedLines)

\* C9 witness: a scene of two units, the first with a blank line in it, has
\* been segmented.
TwoUnitsWithBlankLine ==
    /\ segmented
    /\ scene_text = <<"a","\n","\n","A","A">>
    /\ dialogues = <<<<"a","\n">>, <<"A","A">>>>


----------------------------------------------------------------------------
(* shakespeare_repl.py: ShakespeareReader.display_scene_dialogue_mode *)

\* what the user can type at the (n/p/q) prompt
RawInputs ==
    { <<"n">>, <<"p">>, <<"q">>, <<>>, <<" ", "N">>, <<"P", " ">>, <<"Q">>,
      <<"x">>, <<"n", "n">> }

\* lines 228-241 with the n branch without its test of the last unit
on_action_unbounded(act, index, n) ==
    IF act = <<"n">> THEN [index |-> index + 1, break |-> "no"]
    ELSE IF act = <<"p">>
         THEN [index |-> IF index > 0 THEN index - 1 ELSE index, break |-> "no"]
         ELSE IF act = <<"q">> THEN [index |-> index, break |-> "quit"]
              ELSE [index |-> index, break |-> "no"]

\* lines 228-241: the branch of the action typed, for the index and the number
\* of units: the index after it and whether it breaks out of the loop
on_action(act, index, n) ==
    IF act = <<"n">>
    THEN IF index < n - 1
         THEN [index |-> index + 1, break |-> "no"]
         ELSE [index |-> index, break |-> "end_of_scene"]
    ELSE IF act = <<"p">>
         THEN [index |-> IF index > 0 THEN index - 1 ELSE index, break |-> "no"]
         ELSE IF act = <<"q">> THEN [index |-> index, break |-> "quit"]
              ELSE [index |-> index, break |-> "no"]

\* the reader is constructed on one of the play files
InitStep ==
    /\ play_file \in PlayFiles
    /\ reader = "ready"
    /\ play_name = get_play_name(play_file)
    /\ scenes = parse_play(play_file)
    /\ query = <<>> /\ answer = NotCalled
    /\ InitIdleNorm /\ InitIdleName /\ InitIdleDlg /\ InitIdleBatch /\ InitIdleStep

\* lines 186-208: display_scene_dialogue_mode(act, scene) up to its loop
DisplaySceneDialogueMode(act, scene) ==
    /\ reader = "ready" /\ stepping = "off"
    /\ query' = <<act, scene>>
    /\ answer' = get_scene(scenes, act, scene).ret
    /\ IF answer'.none
       THEN stepping' = "not_found" /\ UNCHANGED dlgVars
       ELSE /\ scene_text' = answer'.text
            /\ dialogues' = parse_dialogues(answer'.text)
            /\ segmented' = TRUE
            /\ stepping' = IF dialogues' = <<>> THEN "no_dialogues" ELSE "prompt"
    /\ dialogue_index' = 0
    /\ UNCHANGED <<play_file, reader, scenes, play_name, action, normVars, nameVars,
                   batchVars>>

\* lines 210-241: one turn of the loop, for what the user types at the prompt
Ask(raw) ==
    /\ stepping = "prompt"
    /\ action' = Lower(Strip(raw))
    /\ LET r == on_action(action', dialogue_index, Len(dialogues))
       IN  /\ dialogue_index' = r.index
           /\ stepping' = IF r.break # "no" THEN r.break
                          ELSE IF r.index < Len(dialogues) THEN "prompt"
                               ELSE "loop_left"
    /\ UNCHANGED <<playVars, dlgVars, normVars, nameVars, batchVars>>

NextStep ==
    \/ \E q \in Queries : DisplaySceneDialogueMode(q[1], q[2])
    \/ \E raw \in RawInputs : Ask(raw)

SpecStep == InitStep /\ [][NextStep]_vars

\* C16: while a scene with units is stepped through, the index stays within
\* the units; p at the first unit and an input that is none of n, p, q leave it
\* where it is, n before the last unit moves it on by one, and the loop is left
\* only by q or by n at the last unit.
IndexStaysInRange ==
    [][ /\ stepping' \in {"prompt", "quit", "end_of_scene", "loop_left"} =>
              /\ Len(dialogues') >= 1
              /\ 0 <= dialogue_index' /\ dialogue_index' < Len(dialogues')
        /\ stepping = "prompt" =>
              /\ (action' = <<"p">> /\ dialogue_index = 0) =>
                     (dialogue_index' = 0 /\ stepping' = "prompt")
              /\ action' \notin {<<"n">>, <<"p">>, <<"q">>} =>
                     (dialogue_index' = dialogue_index /\ stepping' = "prompt")
              /\ (action' = <<"n">> /\ dialogue_index < Len(dialogues) - 1) =>
                     (dialogue_index' = dialogue_index + 1 /\ stepping' = "prompt")
              /\ stepping' # "prompt" =>
                     \/ action' = <<"q">>
                     \/ action' = <<"n">> /\ dialogue_index = Len(dialogues) - 1
      ]_vars

\* C16 witness: on a scene of two units the user has typed n at the first
\* unit, and the second unit is shown.
SecondUnitShown ==
    /\ stepping = "prompt"
    /\ Len(dialogues) = 2
    /\ action = <<"n">>
    /\ dialogue_index = 1

====
